---- MODULE Spec2Model ----
(***************************************************************************)
(* India Petroleum Sales Dashboard (src/streamlit_app.py).                 *)
(*                                                                         *)
(* One Streamlit script run is modelled as the sequence of steps           *)
(*   load_data  ->  sidebar widgets  ->  top/bottom-K charts  ->  summary  *)
(*   metrics  ->  year-over-year growth chart                              *)
(* and a rerun starts the script again.  An uncaught exception halts the   *)
(* run at the line that raised it.  The spreadsheet on disk is the         *)
(* variable source; st.cache_data's entry for load_data is cache.          *)
(*                                                                         *)
(* Sales figures are modelled as integers; a percentage is kept as an      *)
(* exact reduced fraction; a metric tile holds the number of tenths that   *)
(* the format ",.1f" prints.                                               *)
(***************************************************************************)
EXTENDS Integers, Sequences, FiniteSets, TLC

VARIABLES
    source,          \* ./data.xlsx on disk: [exists, cols, rows]
    cache,           \* st.cache_data entry of load_data: [hit, df]
    parse_count,     \* completed executions of load_data's body
    pc,              \* position of the current script run
    error,           \* the uncaught exception that halted the run: [type, line]
    df,              \* the long table of the current run
    selected_year,   \* sidebar selectbox "Select Year"
    selected_state,  \* sidebar selectbox "Select a State/UT"
    k,               \* sidebar slider "Select K for Top/Bottom K"
    top_chart,       \* rows of the bar chart of column 1
    bottom_chart,    \* rows of the bar chart of column 2
    metrics,         \* the four metric tiles: [shown, current, average, max, min]
    growth           \* the growth line chart: [shown, points]

vars == <<source, cache, parse_count, pc, error, df, selected_year,
          selected_state, k, top_chart, bottom_chart, metrics, growth>>

\* Largest number of rows of a spreadsheet.
MaxRows == 3

(***************************************************************************)
(* Strings.  A string is used through its characters.                      *)
(***************************************************************************)
Chars ==
       "Goa"             :> <<"G","o","a">>
    @@ "Assam"           :> <<"A","s","s","a","m">>
    @@ "Kerala"          :> <<"K","e","r","a","l","a">>
    @@ "Bihar"           :> <<"B","i","h","a","r">>
    @@ "Total"           :> <<"T","o","t","a","l">>
    @@ "TOTAL"           :> <<"T","O","T","A","L">>
    @@ "Grand total"     :> <<"G","r","a","n","d"," ","t","o","t","a","l">>
    @@ "Northern Region" :> <<"N","o","r","t","h","e","r","n"," ","R","e","g","i","o","n">>
    @@ "SOUTHERN REGION" :> <<"S","O","U","T","H","E","R","N"," ","R","E","G","I","O","N">>
    @@ "Western region"  :> <<"W","e","s","t","e","r","n"," ","r","e","g","i","o","n">>
    @@ "ALL INDIA"       :> <<"A","L","L"," ","I","N","D","I","A">>
    @@ "All India"       :> <<"A","l","l"," ","I","n","d","i","a">>
    @@ "Region"          :> <<"R","e","g","i","o","n">>
    @@ "REGION"          :> <<"R","E","G","I","O","N">>
    @@ "2014-15"         :> <<"2","0","1","4","-","1","5">>
    @@ "2015-16"         :> <<"2","0","1","5","-","1","6">>
    @@ " 2015-16 "       :> <<" ","2","0","1","5","-","1","6"," ">>
    @@ "2016-17"         :> <<"2","0","1","6","-","1","7">>
    @@ "Remarks"         :> <<"R","e","m","a","r","k","s">>
    @@ "n.a."            :> <<"n",".","a",".">>
    @@ "100"             :> <<"1","0","0">>

DigitValue ==
    "0" :> 0 @@ "1" :> 1 @@ "2" :> 2 @@ "3" :> 3 @@ "4" :> 4 @@
    "5" :> 5 @@ "6" :> 6 @@ "7" :> 7 @@ "8" :> 8 @@ "9" :> 9

IsDigits(cs) == Len(cs) > 0 /\ \A i \in 1..Len(cs) : cs[i] \in DOMAIN DigitValue

RECURSIVE DecimalValue(_)
DecimalValue(cs) ==
    IF cs = <<>> THEN 0
    ELSE 10 * DecimalValue(SubSeq(cs, 1, Len(cs) - 1)) + DigitValue[cs[Len(cs)]]

\* str.strip(): leading and trailing whitespace removed.
RECURSIVE Strip(_)
Strip(cs) ==
    IF cs = <<>> THEN cs
    ELSE IF Head(cs) = " " THEN Strip(Tail(cs))
    ELSE IF cs[Len(cs)] = " " THEN Strip(SubSeq(cs, 1, Len(cs) - 1))
    ELSE cs

\* Whether the characters p occur in cs as a contiguous run (regex search
\* for a literal alternative).
Contains(cs, p) ==
    \E i \in 0..(Len(cs) - Len(p)) : SubSeq(cs, i + 1, i + Len(p)) = p

(***************************************************************************)
(* The spreadsheet.                                                        *)
(***************************************************************************)
NaNLabel == "<NaN>"          \* an empty STATE/UT cell

NaNCell == [t |-> "nan", v |-> 0, s |-> ""]           \* an empty cell
Num(n) == [t |-> "num", v |-> n, s |-> ""]            \* a numeric cell
Str(x) == [t |-> "str", v |-> 0, s |-> x]             \* a text cell

Row(label, cells) == [label |-> label, cells |-> cells]

MissingFile == [exists |-> FALSE, cols |-> <<>>, rows |-> <<>>]

(***************************************************************************)
(* load_data                                                               *)
(***************************************************************************)
\* The alternatives of the pattern 'Region|Total|REGION|ALL INDIA'.
FilterPatterns ==
    {Chars["Region"], Chars["Total"], Chars["REGION"], Chars["ALL INDIA"]}

\* df['STATE/UT'].str.contains(pattern, na=False) for one row.
LabelMatches(label) ==
    /\ label # NaNLabel
    /\ \E p \in FilterPatterns : Contains(Chars[label], p)

\* The rows that line 18 keeps.
KeptRows(rows) == SelectSeq(rows, LAMBDA r : ~LabelMatches(r.label))

\* df.columns.str.strip() for one year column.
ColumnName(col) == Strip(Chars[col])

\* The characters that .str[:4] leaves of a column name.
YearPrefix(col) ==
    LET name == ColumnName(col)
    IN SubSeq(name, 1, IF Len(name) < 4 THEN Len(name) ELSE 4)

\* .astype(int) of that prefix.
YearOf(col) == DecimalValue(YearPrefix(col))

\* pd.to_numeric(errors='coerce') of one cell: a number stays, numeric text
\* is parsed, anything else becomes NaN.
ToNumeric(cell) ==
    CASE cell.t = "num" -> cell
      [] cell.t = "str" /\ IsDigits(Chars[cell.s]) -> Num(DecimalValue(Chars[cell.s]))
      [] OTHER -> NaNCell

\* DataFrame.melt: one record per year column and row, the columns outermost.
Melt(cols, rows) ==
    LET R == Len(rows)
    IN [i \in 1..(Len(cols) * R) |->
          LET c == ((i - 1) \div R) + 1
              r == ((i - 1) % R) + 1
          IN [STATE_UT |-> rows[r].label,
              Year     |-> YearOf(cols[c]),
              Sales    |-> ToNumeric(rows[r].cells[c])]]

\* DataFrame.dropna(): a record with a NaN in any column goes.
HasNaN(rec) == rec.STATE_UT = NaNLabel \/ rec.Sales.t = "nan"

\* A variant that fills a missing sales value with 0 (fillna(0)) and keeps
\* the record.
FillNaWithZero(melted) ==
    SelectSeq([i \in 1..Len(melted) |->
                 IF melted[i].Sales.t = "nan"
                 THEN [melted[i] EXCEPT !.Sales = Num(0)] ELSE melted[i]],
              LAMBDA rec : rec.STATE_UT # NaNLabel)

\* df_melted.dropna()
DropNa(melted) == SelectSeq(melted, LAMBDA rec : ~HasNaN(rec))

LongRecord(rec) ==
    [STATE_UT |-> rec.STATE_UT, Year |-> rec.Year, Sales |-> rec.Sales.v]

NoError == [type |-> "", line |-> 0]
Raised(type, line) == [type |-> type, line |-> line]

\* A variant in which a missing file reads as an empty sheet.
ReadExcelNeverFails(src) == FALSE

\* pd.read_excel('./data.xlsx') raises when the file is not there.
ReadExcelFails(src) == ~src.exists

\* The body of load_data on the file src: [error, df].
LoadData(src) ==
    LET kept == KeptRows(src.rows)
        long == DropNa(Melt(src.cols, kept))
    IN  IF ReadExcelFails(src)
        THEN [error |-> Raised("FileNotFoundError", 12), df |-> <<>>]
        ELSE IF src.rows # <<>> /\ \A i \in 1..Len(src.rows) : src.rows[i].label = NaNLabel
        THEN [error |-> Raised("AttributeError", 18), df |-> <<>>]
        ELSE IF kept # <<>> /\ \E c \in 1..Len(src.cols) : ~IsDigits(YearPrefix(src.cols[c]))
        THEN [error |-> Raised("ValueError", 27), df |-> <<>>]
        ELSE [error |-> NoError,
              df |-> [i \in 1..Len(long) |-> LongRecord(long[i])]]

(***************************************************************************)
(* Sidebar selectors (lines 62-69).                                        *)
(***************************************************************************)
NoYear == -1                 \* st.selectbox over no options returns None
NoState == "<None>"

\* The slider's range and default (line 69).
KMin == 1
KMax == 10
KDefault == 5

Years(d) == {d[i].Year : i \in 1..Len(d)}
States(d) == {d[i].STATE_UT : i \in 1..Len(d)}

YearOptions(d) == IF d = <<>> THEN {NoYear} ELSE Years(d)
StateOptions(d) == IF d = <<>> THEN {NoState} ELSE States(d)

(***************************************************************************)
(* DataFrame.nlargest / nsmallest on 'Sales' (pandas SelectNSeries).       *)
(***************************************************************************)
IndexOrders(n) ==
    {p \in [1..n -> 1..n] : \A i, j \in 1..n : i # j => p[i] # p[j]}

\* argsort(kind="mergesort"): ascending, equal keys in their given order.
MergesortOrder(arr) ==
    CHOOSE p \in IndexOrders(Len(arr)) :
        \A i, j \in 1..Len(arr) :
            i < j => \/ arr[p[i]] < arr[p[j]]
                     \/ arr[p[i]] = arr[p[j]] /\ p[i] < p[j]

\* Series.sort_values() with its default kind="quicksort", which is not a
\* stable sort: every ascending order of the keys is a possible outcome.
QuicksortOrders(arr) ==
    {p \in IndexOrders(Len(arr)) :
        \A i, j \in 1..Len(arr) : i < j => arr[p[i]] <= arr[p[j]]}

\* algos.kth_smallest(arr, n - 1): the n-th smallest key.
KthSmallest(arr, n) == arr[MergesortOrder(arr)[n]]

\* A variant that forgets the year filter.
YearDataUnfiltered(d, y) == d

\* year_data = df[df['Year'] == selected_year]
YearData(d, y) == SelectSeq(d, LAMBDA rec : rec.Year = y)

\* The keys nsmallest works on: the sales for nsmallest, their negation for
\* nlargest.
SelectKeys(frame, method) ==
    [i \in 1..Len(frame) |->
        IF method = "nlargest" THEN 0 - frame[i].Sales ELSE frame[i].Sales]

\* The fast method (n < len): the positions whose key is at most the n-th
\* smallest, merge-sorted by key, the first n of them.
FastSelect(keys, n) ==
    LET kth  == KthSmallest(keys, n)
        idx  == [i \in 1..Len(keys) |-> i]
        ns   == SelectSeq(idx, LAMBDA i : keys[i] <= kth)
        sub  == [i \in 1..Len(ns) |-> keys[ns[i]]]
        ord  == MergesortOrder(sub)
    IN [i \in 1..n |-> ns[ord[i]]]

\* The positions (into frame) that n-selection can return, in result order.
SelectN(frame, n, method) ==
    LET keys == SelectKeys(frame, method)
    IN  IF n >= Len(frame)
        THEN QuicksortOrders(keys)               \* slow method: sort_values().head(n)
        ELSE {FastSelect(keys, n)}

Take(frame, pos) == [i \in 1..Len(pos) |-> frame[pos[i]]]

NLargest(frame, n) == {Take(frame, p) : p \in SelectN(frame, n, "nlargest")}
NSmallest(frame, n) == {Take(frame, p) : p \in SelectN(frame, n, "nsmallest")}

(***************************************************************************)
(* Summary statistics (lines 116-124).                                     *)
(***************************************************************************)
StateRows(d, s) == SelectSeq(d, LAMBDA rec : rec.STATE_UT = s)

RECURSIVE SumSales(_)
SumSales(rows) == IF rows = <<>> THEN 0 ELSE Head(rows).Sales + SumSales(Tail(rows))

MaxSales(rows) ==
    CHOOSE m \in {rows[i].Sales : i \in 1..Len(rows)} :
        \A i \in 1..Len(rows) : rows[i].Sales <= m
MinSales(rows) ==
    CHOOSE m \in {rows[i].Sales : i \in 1..Len(rows)} :
        \A i \in 1..Len(rows) : rows[i].Sales >= m

\* f"{num/den:,.1f}" as a number of tenths: the nearest tenth, an exact tie
\* going to the even digit.  num >= 0, den > 0.
Tenths(num, den) ==
    LET q == (10 * num) \div den
        r == (10 * num) % den
    IN  IF 2 * r < den THEN q
        ELSE IF 2 * r > den THEN q + 1
        ELSE IF q % 2 = 0 THEN q ELSE q + 1

NoMetrics == [shown |-> FALSE, current |-> 0, average |-> 0, max |-> 0, min |-> 0]

\* A variant that takes the statistics over the selected year only.
SummaryRowsOfYear(d, s, y) == StateRows(YearData(d, y), s)

\* The rows the statistics of lines 117-119 are taken over.
SummaryRows(d, s, y) == StateRows(d, s)

(***************************************************************************)
(* Year-over-year growth (lines 129-131).                                  *)
(***************************************************************************)
\* DataFrame.pivot raises on a repeated (Year, STATE/UT) pair.
HasDuplicates(d) ==
    \E i, j \in 1..Len(d) :
        i < j /\ d[i].Year = d[j].Year /\ d[i].STATE_UT = d[j].STATE_UT

\* The pivot's index: the years of the long table, ascending.
PivotIndex(d) ==
    LET ys == Years(d)
    IN CHOOSE seq \in [1..Cardinality(ys) -> ys] :
          \A i, j \in 1..Cardinality(ys) : i < j => seq[i] < seq[j]

\* pivot_df[s]: the state's sales per index year, NaN where it has no record.
PivotColumn(d, s) ==
    LET idx == PivotIndex(d)
    IN [i \in 1..Len(idx) |->
          IF \E r \in 1..Len(d) : d[r].Year = idx[i] /\ d[r].STATE_UT = s
          THEN Num((CHOOSE rec \in {d[r] : r \in 1..Len(d)} :
                        rec.Year = idx[i] /\ rec.STATE_UT = s).Sales)
          ELSE NaNCell]

\* A variant without filling (pct_change(fill_method=None)).
NoFill(col) == col

\* pct_change() with no argument fills forward first (fill_method='pad', its
\* default through pandas 2.x): a NaN takes the last value before it.
RECURSIVE Pad(_)
Pad(col) ==
    IF Len(col) <= 1 THEN col
    ELSE LET init == Pad(SubSeq(col, 1, Len(col) - 1))
             last == col[Len(col)]
         IN Append(init, IF last.t = "nan" THEN init[Len(init)] ELSE last)

RECURSIVE GCD(_, _)
GCD(a, b) == IF b = 0 THEN a ELSE GCD(b, a % b)

Abs(x) == IF x < 0 THEN 0 - x ELSE x

\* The fraction num/den in lowest terms; den = 0 stands for float inf.
Fraction(num, den) ==
    IF den = 0 THEN [num |-> 1, den |-> 0]
    ELSE LET g == GCD(Abs(num), den)
         IN [num |-> num \div g, den |-> den \div g]

\* One cell of (data / data.shift(1) - 1) * 100: NaN when either value is NaN
\* or the division is 0/0, inf for x/0.
PctCell(cur, prev) ==
    IF cur.t = "nan" \/ prev.t = "nan" \/ (cur.v = 0 /\ prev.v = 0)
    THEN [nan |-> TRUE, value |-> Fraction(0, 1)]
    ELSE [nan |-> FALSE, value |-> Fraction((cur.v - prev.v) * 100, prev.v)]

\* growth_df[s].dropna(): the (year, percent) points of the chart.
GrowthPoints(d, s) ==
    LET idx    == PivotIndex(d)
        filled == Pad(PivotColumn(d, s))
        pct    == [i \in 1..Len(idx) |->
                     IF i = 1 THEN [nan |-> TRUE, value |-> Fraction(0, 1)]
                     ELSE PctCell(filled[i], filled[i - 1])]
        pos    == SelectSeq([i \in 1..Len(idx) |-> i], LAMBDA i : ~pct[i].nan)
    IN [i \in 1..Len(pos) |->
          [Year |-> idx[pos[i]], num |-> pct[pos[i]].value.num,
           den |-> pct[pos[i]].value.den]]

NoChart == [shown |-> FALSE, rows |-> <<>>]
NoGrowth == [shown |-> FALSE, points |-> <<>>]

(***************************************************************************)
(* The script run.                                                         *)
(***************************************************************************)
Halt(type, line) ==
    /\ pc' = "halted"
    /\ error' = Raised(type, line)

\* A variant whose entry is dropped when the file no longer gives the table.
CacheHitIfFileUnchanged ==
    cache.hit /\ LoadData(source) = [error |-> NoError, df |-> cache.df]

\* @st.cache_data: load_data takes no argument, so one entry serves every
\* call once it is there; the file is not looked at.
CacheHit == cache.hit

\* Line 53: df = load_data(), through st.cache_data.
LoadStep ==
    /\ pc = "load"
    /\ IF CacheHit
       THEN /\ df' = cache.df
            /\ pc' = "widgets"
            /\ UNCHANGED <<cache, parse_count, error>>
       ELSE LET r == LoadData(source)
            IN IF r.error # NoError
               THEN /\ pc' = "halted"
                    /\ error' = r.error
                    /\ UNCHANGED <<cache, parse_count, df>>
               ELSE /\ cache' = [hit |-> TRUE, df |-> r.df]
                    /\ parse_count' = parse_count + 1
                    /\ df' = r.df
                    /\ pc' = "widgets"
                    /\ UNCHANGED error
    /\ UNCHANGED <<source, selected_year, selected_state, k, top_chart,
                   bottom_chart, metrics, growth>>

\* Lines 59-69: the user's choices among the options the table offers.
Widgets(ks) ==
    /\ pc = "widgets"
    /\ selected_year' \in YearOptions(df)
    /\ selected_state' \in StateOptions(df)
    /\ k' \in ks
    /\ pc' = "charts"
    /\ UNCHANGED <<source, cache, parse_count, error, df, top_chart,
                   bottom_chart, metrics, growth>>

\* Lines 71-105.  Line 72 reads the last row of the re-melted table, which
\* raises on an empty table; its value is the column name 'Sales', so lines
\* 73-74 select on 'Sales' and their results are overwritten below.
Charts ==
    /\ pc = "charts"
    /\ IF df = <<>>
       THEN /\ Halt("IndexError", 72)
            /\ UNCHANGED <<top_chart, bottom_chart>>
       ELSE LET year_data == YearData(df, selected_year)
            IN /\ top_chart' \in
                     {[shown |-> TRUE, rows |-> t] : t \in NLargest(year_data, k)}
               /\ bottom_chart' \in
                     {[shown |-> TRUE, rows |-> b] : b \in NSmallest(year_data, k)}
               /\ pc' = "summary"
               /\ UNCHANGED error
    /\ UNCHANGED <<source, cache, parse_count, df, selected_year,
                   selected_state, k, metrics, growth>>

\* A variant that takes the state's rows of any year.
CurrentRowsAnyYear(d, s, y) == StateRows(d, s)

\* Line 116: the selected state's rows of the selected year.
CurrentRows(d, s, y) == StateRows(YearData(d, y), s)

\* Lines 108-124.
Summary ==
    /\ pc = "summary"
    /\ LET current   == CurrentRows(df, selected_state, selected_year)
           rows      == SummaryRows(df, selected_state, selected_year)
       IN IF current = <<>>
          THEN /\ Halt("IndexError", 116)
               /\ UNCHANGED metrics
          ELSE /\ metrics' = [shown   |-> TRUE,
                              current |-> Tenths(current[1].Sales, 1),
                              average |-> Tenths(SumSales(rows), Len(rows)),
                              max     |-> Tenths(MaxSales(rows), 1),
                              min     |-> Tenths(MinSales(rows), 1)]
               /\ pc' = "growth"
               /\ UNCHANGED error
    /\ UNCHANGED <<source, cache, parse_count, df, selected_year,
                   selected_state, k, top_chart, bottom_chart, growth>>

\* Lines 126-144.
Growth ==
    /\ pc = "growth"
    /\ IF HasDuplicates(df)
       THEN /\ Halt("ValueError", 129)
            /\ UNCHANGED growth
       ELSE /\ growth' = [shown |-> TRUE,
                          points |-> GrowthPoints(df, selected_state)]
            /\ pc' = "done"
            /\ UNCHANGED error
    /\ UNCHANGED <<source, cache, parse_count, df, selected_year,
                   selected_state, k, top_chart, bottom_chart, metrics>>

\* A widget change (or a reload) runs the script again from the top; the
\* cache outlives the run.
Rerun ==
    /\ pc \in {"done", "halted"}
    /\ pc' = "load"
    /\ error' = NoError
    /\ df' = <<>>
    /\ selected_year' = NoYear
    /\ selected_state' = NoState
    /\ k' = 0
    /\ top_chart' = NoChart
    /\ bottom_chart' = NoChart
    /\ metrics' = NoMetrics
    /\ growth' = NoGrowth
    /\ UNCHANGED <<source, cache, parse_count>>

\* The spreadsheet is replaced on disk between two runs.
ChangeSource(sources) ==
    /\ pc \in {"done", "halted"}
    /\ source' \in sources \ {source}
    /\ UNCHANGED <<cache, parse_count, pc, error, df, selected_year,
                   selected_state, k, top_chart, bottom_chart, metrics, growth>>

InitWith(sources) ==
    /\ source \in sources
    /\ cache = [hit |-> FALSE, df |-> <<>>]
    /\ parse_count = 0
    /\ pc = "load"
    /\ error = NoError
    /\ df = <<>>
    /\ selected_year = NoYear
    /\ selected_state = NoState
    /\ k = 0
    /\ top_chart = NoChart
    /\ bottom_chart = NoChart
    /\ metrics = NoMetrics
    /\ growth = NoGrowth

Run(ks) == LoadStep \/ Widgets(ks) \/ Charts \/ Summary \/ Growth \/ Rerun

(***************************************************************************)
(* Input spreadsheets.                                                     *)
(***************************************************************************)
\* The sequences of n rows of rest.
RECURSIVE RowSeqs(_, _)
RowSeqs(rest, n) ==
    IF n = 0 THEN {<<>>}
    ELSE {Append(rs, r) : rs \in RowSeqs(rest, n - 1), r \in rest}

Keyed(rows) ==
    \A i, j \in 1..Len(rows) : i # j => rows[i].label # rows[j].label

\* The spreadsheets with the columns cols and at most MaxRows rows, the first
\* row from first and the others from rest; with keyed, no two rows carry
\* the same region label.
Tables(cols, first, rest, keyed) ==
    {[exists |-> TRUE, cols |-> cols, rows |-> <<>>]} \cup
    {[exists |-> TRUE, cols |-> cols, rows |-> rs] :
        rs \in {rs \in UNION {{<<f>> \o t : f \in first, t \in RowSeqs(rest, n)} :
                                 n \in 0..(MaxRows - 1)} :
                  keyed => Keyed(rs)}}

\* The spreadsheets of the default specification: two year columns, Goa and
\* Assam, a missing file and a sheet with a column that is no year.
SmallSources ==
    {MissingFile}
    \cup Tables(<<"2014-15", "2015-16">>,
                {Row("Goa", <<Num(100), Num(150)>>), Row("Goa", <<NaNCell, Num(100)>>)},
                {Row("Assam", <<Num(100), Num(100)>>), Row("Kerala", <<Num(0), NaNCell>>)},
                TRUE)
    \cup {[exists |-> TRUE, cols |-> <<"2014-15", "Remarks">>,
           rows |-> <<Row("Goa", <<Num(100), Str("n.a.")>>)>>]}

SmallKs == {KMin, KDefault}

\* The spreadsheets the loader is checked on: every kind of label and of
\* cell in the first row, fixed rows after it; labels may repeat.
LoaderLabels ==
    {"Goa", "Total", "TOTAL", "Grand total", "Northern Region", "SOUTHERN REGION",
     "Western region", "ALL INDIA", "All India", NaNLabel}

LoaderCells == {NaNCell, Num(0), Num(100), Str("n.a."), Str("100")}

LoaderSources ==
    {MissingFile}
    \cup Tables(<<"2014-15", " 2015-16 ">>,
                {Row(l, <<a, b>>) : l \in LoaderLabels, a \in LoaderCells, b \in LoaderCells},
                {Row("Goa", <<Num(100), NaNCell>>),
                 Row(NaNLabel, <<Num(100), Num(100)>>),
                 Row("TOTAL", <<Num(0), Str("n.a.")>>)},
                FALSE)
    \cup {[exists |-> TRUE, cols |-> <<"2014-15", "Remarks">>,
           rows |-> <<Row("Goa", <<Num(100), Str("n.a.")>>)>>]}

\* The spreadsheets the top/bottom-K charts are checked on: up to MaxRows
\* regions in two years, with equal sales among them.
ChartSources ==
    {MissingFile}
    \cup Tables(<<"2014-15", "2015-16">>,
                {Row("Goa", <<a, b>>) :
                    <<a, b>> \in {<<Num(100), Num(100)>>, <<Num(150), NaNCell>>,
                                  <<Num(0), Num(150)>>}},
                {Row("Assam", <<Num(100), Num(150)>>),
                 Row("Assam", <<NaNCell, Num(100)>>),
                 Row("Kerala", <<Num(150), Num(100)>>),
                 Row("Bihar", <<Num(100), Num(100)>>)},
                TRUE)

ChartKs == KMin..KMax

\* The spreadsheets the summary and the growth chart are checked on: three
\* year columns, every pattern of present, absent and zero sales for Goa.
GrowthCells == {NaNCell, Num(0), Num(100), Num(150)}

GrowthSources ==
    {MissingFile}
    \cup Tables(<<"2014-15", "2015-16", "2016-17">>,
                {Row("Goa", <<a, b, c>>) :
                    a \in GrowthCells, b \in GrowthCells, c \in GrowthCells}
                \cup {Row("Goa", <<Num(500), Num(450), NaNCell>>)},
                {Row("Assam", <<Num(100), Num(100), Num(100)>>),
                 Row("Assam", <<NaNCell, NaNCell, Num(150)>>),
                 Row("Kerala", <<Num(0), Num(100), NaNCell>>),
                 Row("Bihar", <<NaNCell, Num(100), NaNCell>>)},
                TRUE)

GrowthKs == {KDefault}

(***************************************************************************)
(* Specifications.                                                         *)
(***************************************************************************)
Init == InitWith(SmallSources)
Next == Run(SmallKs) \/ ChangeSource(SmallSources)
Spec == Init /\ [][Next]_vars

InitLoader == InitWith(LoaderSources)
NextLoader == Run({KDefault})
SpecLoader == InitLoader /\ [][NextLoader]_vars

InitCharts == InitWith(ChartSources)
NextCharts == Run(ChartKs)
SpecCharts == InitCharts /\ [][NextCharts]_vars

InitGrowth == InitWith(GrowthSources)
NextGrowth == Run(GrowthKs)
SpecGrowth == InitGrowth /\ [][NextGrowth]_vars

(***************************************************************************)
(* Properties.                                                             *)
(***************************************************************************)
LowerCase ==
       "A" :> "a" @@ "B" :> "b" @@ "C" :> "c" @@ "D" :> "d" @@ "E" :> "e"
    @@ "F" :> "f" @@ "G" :> "g" @@ "H" :> "h" @@ "I" :> "i" @@ "J" :> "j"
    @@ "K" :> "k" @@ "L" :> "l" @@ "M" :> "m" @@ "N" :> "n" @@ "O" :> "o"
    @@ "P" :> "p" @@ "Q" :> "q" @@ "R" :> "r" @@ "S" :> "s" @@ "T" :> "t"
    @@ "U" :> "u" @@ "V" :> "v" @@ "W" :> "w" @@ "X" :> "x" @@ "Y" :> "y"
    @@ "Z" :> "z"

Lower(cs) ==
    [i \in 1..Len(cs) |-> IF cs[i] \in DOMAIN LowerCase THEN LowerCase[cs[i]] ELSE cs[i]]

\* A label that names an aggregate whatever its letter case.
AggregateLabel(label) ==
    /\ label # NaNLabel
    /\ LET lc == Lower(Chars[label])
       IN \/ Contains(lc, <<"r","e","g","i","o","n">>)
          \/ Contains(lc, <<"t","o","t","a","l">>)
          \/ lc = <<"a","l","l"," ","i","n","d","i","a">>

\* C1: no record of the long table returned by load_data carries a region
\* label that, compared case-insensitively, contains "region" or "total" or
\* equals "all india".
C1_NoAggregateLabelSurvives ==
    cache.hit => \A i \in 1..Len(cache.df) : ~AggregateLabel(cache.df[i].STATE_UT)

NumericCell(cell) == cell.t = "num" \/ (cell.t = "str" /\ IsDigits(Chars[cell.s]))
CellValue(cell) == IF cell.t = "num" THEN cell.v ELSE DecimalValue(Chars[cell.s])

\* The (row, column) cells of the region rows that the filter of line 18 lets
\* through.
RegionCells(src) ==
    {rc \in (1..Len(src.rows)) \X (1..Len(src.cols)) :
        /\ src.rows[rc[1]].label # NaNLabel
        /\ ~LabelMatches(src.rows[rc[1]].label)}

NumericRegionCells(src) ==
    {rc \in RegionCells(src) : NumericCell(src.rows[rc[1]].cells[rc[2]])}

RecordOf(src, rc) ==
    [STATE_UT |-> src.rows[rc[1]].label,
     Year     |-> YearOf(src.cols[rc[2]]),
     Sales    |-> CellValue(src.rows[rc[1]].cells[rc[2]])]

\* The spreadsheet is there, has a labelled row (or no row) and year columns.
WellFormed(src) ==
    /\ src.exists
    /\ src.rows = <<>> \/ \E i \in 1..Len(src.rows) : src.rows[i].label # NaNLabel
    /\ \A c \in 1..Len(src.cols) : IsDigits(YearPrefix(src.cols[c]))

\* C4: load_data yields a long record (region, year, sales) for a cell of a
\* region row exactly when the row is not excluded and the cell holds a
\* numeric value, with sales equal to that value; an empty or non-numeric
\* cell yields no record (never one with sales 0) and does not make the load
\* fail; a cell holding 0 yields a record with sales 0.
C4_RecordsAreTheNumericCells ==
    /\ (pc # "load" /\ WellFormed(source)) => cache.hit
    /\ cache.hit =>
         /\ \A rc \in NumericRegionCells(source) :
               \E i \in 1..Len(cache.df) : cache.df[i] = RecordOf(source, rc)
         /\ \A i \in 1..Len(cache.df) :
               \E rc \in NumericRegionCells(source) : cache.df[i] = RecordOf(source, rc)
         /\ Len(cache.df) = Cardinality(NumericRegionCells(source))

\* A region row with a text cell and a zero cell has been loaded: the zero
\* is a record, the text is none.
C4_Witness ==
    /\ cache.hit
    /\ \E r \in 1..Len(source.rows) :
          /\ source.rows[r] = Row("Goa", <<Str("n.a."), Num(0)>>)
          /\ \E i \in 1..Len(cache.df) :
                cache.df[i] = [STATE_UT |-> "Goa", Year |-> 2015, Sales |-> 0]
          /\ ~\E i \in 1..Len(cache.df) :
                cache.df[i].STATE_UT = "Goa" /\ cache.df[i].Year = 2014

Min(a, b) == IF a < b THEN a ELSE b

\* The rows of a chart are distinct records of the table for year y.
FromYear(rows, d, y) ==
    /\ \A i \in 1..Len(rows) :
          rows[i].Year = y /\ \E j \in 1..Len(d) : d[j] = rows[i]
    /\ \A i, j \in 1..Len(rows) : i # j => rows[i] # rows[j]

RegionsInYear(d, y) == {d[i].STATE_UT : i \in {j \in 1..Len(d) : d[j].Year = y}}

\* C5: every record of the top-K and of the bottom-K chart is a record of the
\* long table for the selected year, each chart has exactly
\* min(k, number of regions with a record in that year) entries, and k above
\* that number returns all of them without error.
C5_ChartsAreKOfTheYear ==
    /\ (pc = "halted" /\ error.line \in 71..105) => df = <<>>
    /\ (pc \in {"summary", "growth", "done"}) => (top_chart.shown /\ bottom_chart.shown)
    /\ top_chart.shown =>
         /\ FromYear(top_chart.rows, df, selected_year)
         /\ Len(top_chart.rows) = Min(k, Cardinality(RegionsInYear(df, selected_year)))
    /\ bottom_chart.shown =>
         /\ FromYear(bottom_chart.rows, df, selected_year)
         /\ Len(bottom_chart.rows) = Min(k, Cardinality(RegionsInYear(df, selected_year)))

\* Both charts are drawn with k above the three regions of the year.
C5_Witness ==
    /\ top_chart.shown /\ bottom_chart.shown
    /\ Cardinality(RegionsInYear(df, selected_year)) = 3
    /\ k = 5
    /\ Len(top_chart.rows) = 3 /\ Len(bottom_chart.rows) = 3

\* The first n rows of frame in the order of a stable sort on sales.
StableSelection(frame, n, method) ==
    LET ord == MergesortOrder(SelectKeys(frame, method))
    IN [i \in 1..Min(n, Len(frame)) |-> frame[ord[i]]]

HasRecord(d, s, y) == \E i \in 1..Len(d) : d[i].STATE_UT = s /\ d[i].Year = y
SalesOf(d, s, y) ==
    (CHOOSE rec \in {d[i] : i \in 1..Len(d)} : rec.STATE_UT = s /\ rec.Year = y).Sales
SalesOfState(d, s) == {d[i].Sales : i \in {j \in 1..Len(d) : d[j].STATE_UT = s}}
RecordsOfState(d, s) == {i \in 1..Len(d) : d[i].STATE_UT = s}

RECURSIVE SumOver(_, _)
SumOver(d, idx) ==
    IF idx = {} THEN 0
    ELSE LET i == CHOOSE x \in idx : TRUE IN d[i].Sales + SumOver(d, idx \ {i})

PastSummary ==
    pc \in {"growth", "done"} \/ (pc = "halted" /\ error.line >= 116)

\* C3: a selected state with records in other years but none for the
\* selected year ends the summary in an error, with no Current Year Sales
\* tile (no 0, no value of another year or region); a state whose record of
\* that year has sales 0 shows 0 and no error.
C3_NoDataIsAnErrorZeroIsNot ==
    PastSummary =>
       /\ ~HasRecord(df, selected_state, selected_year) =>
             /\ pc = "halted"
             /\ error = Raised("IndexError", 116)
             /\ ~metrics.shown
       /\ (HasRecord(df, selected_state, selected_year)
             /\ SalesOf(df, selected_state, selected_year) = 0) =>
             /\ metrics.shown
             /\ metrics.current = 0
             /\ ~(pc = "halted" /\ error.line = 116)

\* The selected state has records, none of them for the selected year, and
\* the run has halted in the summary.
C3_Witness ==
    /\ pc = "halted" /\ error = Raised("IndexError", 116)
    /\ selected_state \in States(df)
    /\ ~HasRecord(df, selected_state, selected_year)
    /\ ~metrics.shown

\* C7: for a selected state with a record for the selected year, current is
\* the sales of that record, and average, max and min are taken over all the
\* state's records of all years; Goa with (2014, 500) and (2015, 450) and
\* year 2015 shows 450, 475, 500, 450.  The tiles hold tenths.
C7_SummaryOverAllYears ==
    /\ (PastSummary /\ HasRecord(df, selected_state, selected_year)) => metrics.shown
    /\ metrics.shown =>
         LET idx == RecordsOfState(df, selected_state)
             all == SalesOfState(df, selected_state)
         IN /\ HasRecord(df, selected_state, selected_year)
            /\ metrics.current = 10 * SalesOf(df, selected_state, selected_year)
            /\ metrics.max = 10 * (CHOOSE m \in all : \A x \in all : x <= m)
            /\ metrics.min = 10 * (CHOOSE m \in all : \A x \in all : x >= m)
            /\ 2 * Abs(metrics.average * Cardinality(idx) - 10 * SumOver(df, idx))
                  <= Cardinality(idx)
            /\ (/\ selected_state = "Goa" /\ selected_year = 2015
                /\ {<<df[i].Year, df[i].Sales>> : i \in idx} = {<<2014, 500>>, <<2015, 450>>})
               => metrics = [shown |-> TRUE, current |-> 4500, average |-> 4750,
                             max |-> 5000, min |-> 4500]

\* The Goa example with another region in the table.
C7_Witness ==
    /\ metrics.shown
    /\ selected_state = "Goa" /\ selected_year = 2015
    /\ {<<df[i].Year, df[i].Sales>> : i \in RecordsOfState(df, "Goa")}
          = {<<2014, 500>>, <<2015, 450>>}
    /\ "Assam" \in States(df)
    /\ metrics.average = 4750

\* C8: the spreadsheet is parsed at most once; after the first successful
\* load_data every later run works on that same long table, whatever has
\* happened to the file since.
C8_ParsedAtMostOnce ==
    /\ [][cache.hit => (cache' = cache /\ parse_count' = parse_count)]_vars
    /\ [](parse_count <= 1)
    /\ []((pc \in {"widgets", "charts", "summary", "growth", "done"})
            => (cache.hit /\ df = cache.df))

\* A run has finished on the cached table although the file now holds
\* something else.
C8_Witness ==
    /\ pc = "done" /\ cache.hit /\ parse_count = 1
    /\ df = cache.df
    /\ LoadData(source) # [error |-> NoError, df |-> cache.df]

LoadFailed == pc = "halted" /\ error.line \in 10..36

NothingRendered ==
    /\ df = <<>>
    /\ selected_year = NoYear /\ selected_state = NoState /\ k = 0
    /\ ~top_chart.shown /\ ~bottom_chart.shown
    /\ ~metrics.shown /\ ~growth.shown

Unreadable(src) ==
    \/ ~src.exists
    \/ /\ KeptRows(src.rows) # <<>>
       /\ \E c \in 1..Len(src.cols) : ~IsDigits(YearPrefix(src.cols[c]))

\* C9: with the spreadsheet missing or not parseable, load_data fails and the
\* run halts there: no selector, chart, metric or growth chart is rendered
\* and no table, empty or other, stands in for the data.
C9_LoadFailureHalts ==
    /\ [](LoadFailed => (NothingRendered /\ ~cache.hit))
    /\ [][(pc = "load" /\ ~cache.hit /\ Unreadable(source))
            => (pc' = "halted" /\ error'.line \in 10..36
                /\ cache' = cache /\ df' = <<>>)]_vars

\* The file is missing and the run has halted in load_data.
C9_Witness ==
    /\ ~source.exists
    /\ pc = "halted" /\ error = Raised("FileNotFoundError", 12)
    /\ ~cache.hit

YearsOfState(d, s) == {d[i].Year : i \in RecordsOfState(d, s)}

PointsAt(y) == {i \in 1..Len(growth.points) : growth.points[i].Year = y}

\* C2: the growth of the selected region runs over the region's own records
\* in year order: no value for its earliest record year, and for each later
\* record year (sales - previous present sales) / previous present sales
\* * 100, a missing year in between being skipped; 100 then 150 gives 50.
\* With previous sales 0 the float quotient is inf for positive sales, and
\* NaN for sales 0, which dropna() removes.
C2_GrowthOverOwnSeries ==
    growth.shown =>
       LET ys == YearsOfState(df, selected_state)
           earliest == CHOOSE y \in ys : \A x \in ys : y <= x
       IN /\ ys # {}
          /\ PointsAt(earliest) = {}
          /\ \A y \in ys \ {earliest} :
                LET before == {x \in ys : x < y}
                    py   == CHOOSE x \in before : \A z \in before : z <= x
                    prev == SalesOf(df, selected_state, py)
                    cur  == SalesOf(df, selected_state, y)
                IN /\ prev # 0 =>
                        /\ Cardinality(PointsAt(y)) = 1
                        /\ \A i \in PointsAt(y) :
                              /\ growth.points[i].den > 0
                              /\ growth.points[i].num * prev
                                    = (cur - prev) * 100 * growth.points[i].den
                              /\ (prev = 100 /\ cur = 150) =>
                                    (growth.points[i].num = 50 /\ growth.points[i].den = 1)
                   /\ (prev = 0 /\ cur > 0) =>
                        /\ Cardinality(PointsAt(y)) = 1
                        /\ \A i \in PointsAt(y) : growth.points[i].den = 0
                   /\ (prev = 0 /\ cur = 0) => PointsAt(y) = {}

\* Goa has 100 in 2014 and 150 in 2016 and no record for 2015, a year that
\* another region has; the chart shows 50 for 2016.
C2_Witness ==
    /\ growth.shown /\ selected_state = "Goa"
    /\ {<<df[i].Year, df[i].Sales>> : i \in RecordsOfState(df, "Goa")}
          = {<<2014, 100>>, <<2016, 150>>}
    /\ 2015 \in Years(df)
    /\ \E i \in PointsAt(2016) : growth.points[i].num = 50 /\ growth.points[i].den = 1

\* C10: the growth series has values only for years in which the selected
\* region has a sales record; a year absent for the region and present for
\* another gets no value, in particular no 0.
C10_NoGrowthForAbsentYears ==
    growth.shown =>
       \A i \in 1..Len(growth.points) :
          HasRecord(df, selected_state, growth.points[i].Year)

====
